---- MODULE Spec2Model ----
(***************************************************************************)
(* nano-oneshot: a one-shot channel built from Arc<Mutex<Option<T>>> and   *)
(* Arc<Condvar>.  One Sender thread ("S") and one Receiver thread ("R")    *)
(* run the operations of src/nano-oneshot/src/lib.rs one memory access at  *)
(* a time: every read of a strong count, every lock, unlock, notify, park  *)
(* and reference release is a step of its own.                             *)
(***************************************************************************)
EXTENDS Integers, Sequences, FiniteSets, TLC

\* ---------------------------------------------------------------- bounds
MaxVal == 2        \* payload values are 1..MaxVal
MaxTimeout == 1    \* recv_timeout is called with a timeout in 0..MaxTimeout ticks
MaxProbes == 2     \* is_disconnected calls per endpoint before its terminal call
MaxSpurious == 1   \* wake-ups of the parked Receiver that nobody issued

Values == 1..MaxVal
\* the clock since the start of recv_timeout saturates one tick past the
\* largest timeout, so "elapsed < timeout" is exact for every timeout
MaxElapsed == MaxTimeout + 1

\* ------------------------------------------------------------ data values
\* Option<T>: None is the empty sequence, Some(v) is <<v>>
None == <<>>
Some(v) == <<v>>

NoResult == <<"none">>
SendOk == <<"Ok">>
SendErrDisconnected(v) == <<"SendError::Disconnected", v>>
RecvOk(v) == <<"Ok", v>>
RecvDisconnected == <<"Disconnected">>
RecvTimedOut == <<"TimedOut">>

VARIABLES
  slot,         \* the Option<T> inside the Mutex
  mutexRefs,    \* threads holding a strong reference to the Arc<Mutex<..>>
  condvarRefs,  \* threads holding a strong reference to the Arc<Condvar>
  lockOwner,    \* "none", "S" or "R": who holds the Mutex
  parked,       \* TRUE while the Receiver thread is queued on the Condvar
  spc,          \* Sender thread: position in its code
  scall,        \* Sender thread: "none", "send" or "drop" (how the handle ends)
  sval,         \* the value passed to send
  sres,         \* the result of send
  sisd,         \* Sender thread: where is_disconnected returns to, and its result
  sprobes,      \* number of Sender.is_disconnected() calls made by the user
  rpc,          \* Receiver thread: position in its code
  rcall,        \* Receiver thread: "none", "recv", "recv_timeout" or "drop"
  rres,         \* the result of recv / recv_timeout
  risd,         \* Receiver thread: result of is_disconnected
  rprobes,      \* number of Receiver.is_disconnected() calls made by the user
  timeout,      \* the Duration passed to recv_timeout, in ticks
  timer,        \* ticks left of the wait_for in progress
  timedOut,     \* what the last wait returned: WaitTimeoutResult::timed_out()
  spurious,     \* number of spurious wake-ups so far
  elapsed,      \* ticks since recv_timeout was called (saturating)
  hist,         \* observations recorded for the properties; never read by the code
  leb,          \* nano-leb128: the codec call in progress (reader, writer, locals)
  perms         \* nano-fs-perms: the value under conversion and what was made of it

vars == <<slot, mutexRefs, condvarRefs, lockOwner, parked,
          spc, scall, sval, sres, sisd, sprobes,
          rpc, rcall, rres, risd, rprobes,
          timeout, timer, timedOut, spurious, elapsed, hist, leb, perms>>

\* the variables of the one-shot channel
chanvars == <<slot, mutexRefs, condvarRefs, lockOwner, parked,
              spc, scall, sval, sres, sisd, sprobes,
              rpc, rcall, rres, risd, rprobes,
              timeout, timer, timedOut, spurious, elapsed, hist>>

shared == <<slot, mutexRefs, condvarRefs, lockOwner, parked>>
svars == <<spc, scall, sval, sres, sisd, sprobes>>
rvars == <<rpc, rcall, rres, risd, rprobes, timeout, timer, timedOut>>
tvars == <<spurious, elapsed>>

\* Arc::strong_count
strong_count(arc) == Cardinality(arc)

\* what a thread still holds of its handle: "alive" (both references),
\* "dropping" (one of them released) or "gone" (both released)
HandleStatus(t) ==
  IF t \in mutexRefs /\ t \in condvarRefs THEN "alive"
  ELSE IF t \notin mutexRefs /\ t \notin condvarRefs THEN "gone"
  ELSE "dropping"

NoProbe == [start |-> "none", ret |-> "none", res |-> FALSE]

\* nano-fs-perms: no conversion is made while the channel or the codec runs
PermsIdle == [pc |-> "idle", value |-> {}, built |-> <<"Perms", {}>>, names |-> {},
              res |-> NoResult, valid |-> NoResult, repr |-> <<>>]

\* nano-leb128 locals before any call: no codec call is made while the
\* channel runs
LebIdle ==
  [pc |-> "idle", kind |-> "none", mode |-> "none", input |-> {}, cap |-> 0,
   value |-> {}, more |-> TRUE, buf |-> <<>>, wpos |-> 0, wres |-> NoResult,
   rpos |-> 0, result |-> {}, shift |-> 0, byte |-> {}, rdres |-> NoResult]

\* what has happened so far: nothing
HistInit ==
  [rwaited |-> FALSE,        \* the Receiver entered a Condvar wait
   sDoneAtRStart |-> FALSE,  \* Sender fully disposed when recv/recv_timeout began
   rDoneAtSStart |-> FALSE,  \* Receiver fully disposed when send began
   sStartInR |-> FALSE,      \* send / drop began while recv / recv_timeout was running
   sDoneAt |-> -1,           \* value of elapsed when the Sender's disposal ended
   written |-> FALSE,        \* a value has been stored into the slot
   observe |-> FALSE,        \* the five fields below are recorded
   sTrueAt |-> 0,            \* number of the Sender.is_disconnected() call that first gave true
   rTrueAt |-> 0,            \* the same for Receiver.is_disconnected()
   rDoneAtWrite |-> FALSE,   \* Receiver fully disposed when the value was stored
   wokenBy |-> "none",       \* notification that ended the last wait: "send", "drop"
   waited |-> 0,             \* ticks spent inside wait_for, up to timeout + 1
   sprobe |-> NoProbe,       \* last finished Sender.is_disconnected()
   rprobe |-> NoProbe ]      \* last finished Receiver.is_disconnected()

\* channel(): both Arcs are created and cloned once, the slot is None
ChanInit ==
  /\ slot = None
  /\ mutexRefs = {"S", "R"}
  /\ condvarRefs = {"S", "R"}
  /\ lockOwner = "none"
  /\ parked = FALSE
  /\ spc = "idle" /\ scall = "none" /\ sval = 0 /\ sres = NoResult
  /\ sisd = [ret |-> "idle", res |-> FALSE]
  /\ sprobes = 0
  /\ rpc = "idle" /\ rcall = "none" /\ rres = NoResult
  /\ risd = FALSE
  /\ rprobes = 0
  /\ timeout = 0 /\ timer = 0 /\ timedOut = FALSE
  /\ spurious = 0 /\ elapsed = 0
  /\ hist = HistInit

Init == ChanInit /\ leb = LebIdle /\ perms = PermsIdle


\* ------------------------------------------------------------- the Condvar
\* Condvar::notify_one: wakes the parked thread if there is one; the woken
\* thread has to re-acquire the Mutex before its wait returns
notify_one ==
  IF parked
  THEN parked' = FALSE /\ rpc' = "relock" /\ timedOut' = FALSE
  ELSE UNCHANGED <<parked, rpc, timedOut>>

R_rest == <<rcall, rres, risd, rprobes, timeout, timer>>

\* recv or recv_timeout has been called and has not returned
Receiving == rcall \in {"recv", "recv_timeout"} /\ rpc # "done"

\* ------------------------------------------------------------ Sender thread
\* the user calls Sender::is_disconnected(&self)
S_is_disconnected ==
  /\ spc = "idle" /\ sprobes < MaxProbes
  /\ spc' = "isd_mutex"
  /\ sisd' = [ret |-> "idle", res |-> FALSE]
  /\ sprobes' = sprobes + 1
  /\ hist' = [hist EXCEPT !.sprobe = [start |-> HandleStatus("R"), ret |-> "none", res |-> FALSE]]
  /\ UNCHANGED <<leb, perms, shared, scall, sval, sres, rvars, tvars>>

\* the user calls Sender::send(self, value); its first statement is the
\* call self.is_disconnected()
S_send ==
  /\ spc = "idle"
  /\ \E v \in Values : sval' = v
  /\ scall' = "send"
  /\ spc' = "isd_mutex"
  /\ sisd' = [ret |-> "send_checked", res |-> FALSE]
  /\ hist' = [hist EXCEPT !.rDoneAtSStart = (rpc = "done"),
                          !.sStartInR = Receiving,
                          !.sprobe = [start |-> HandleStatus("R"), ret |-> "none", res |-> FALSE]]
  /\ UNCHANGED <<leb, perms, shared, sres, sprobes, rvars, tvars>>

\* is_disconnected returns b to the place it was called from
S_isd_return(b) ==
  /\ spc' = sisd.ret
  /\ sisd' = [sisd EXCEPT !.res = b]
  /\ hist' = [hist EXCEPT !.sprobe.ret = HandleStatus("R"), !.sprobe.res = b,
                          !.sTrueAt = IF hist.observe /\ b /\ sisd.ret = "idle" /\ @ = 0
                                      THEN sprobes ELSE @]

\* mutant: the left operand compares the count with 2
S_isd_mutex_two ==
  /\ spc = "isd_mutex"
  /\ IF strong_count(mutexRefs) = 2
     THEN S_isd_return(TRUE)
     ELSE spc' = "isd_condvar" /\ UNCHANGED <<sisd, hist>>
  /\ UNCHANGED <<leb, perms, shared, scall, sval, sres, sprobes, rvars, tvars>>

\* Arc::strong_count(mutex) == 1 || ...: the left operand
S_isd_mutex ==
  /\ spc = "isd_mutex"
  /\ IF strong_count(mutexRefs) = 1
     THEN S_isd_return(TRUE)
     ELSE spc' = "isd_condvar" /\ UNCHANGED <<sisd, hist>>
  /\ UNCHANGED <<leb, perms, shared, scall, sval, sres, sprobes, rvars, tvars>>

\* mutant: only the count of the Mutex is consulted
S_isd_condvar_skipped ==
  /\ spc = "isd_condvar"
  /\ S_isd_return(FALSE)
  /\ UNCHANGED <<leb, perms, shared, scall, sval, sres, sprobes, rvars, tvars>>

\* ... || Arc::strong_count(condvar) == 1: the right operand
S_isd_condvar ==
  /\ spc = "isd_condvar"
  /\ S_isd_return(strong_count(condvarRefs) = 1)
  /\ UNCHANGED <<leb, perms, shared, scall, sval, sres, sprobes, rvars, tvars>>

\* mutant: send does not act on the result of is_disconnected
S_send_checked_ignored ==
  /\ spc = "send_checked"
  /\ sres' = sres /\ spc' = "send_lock"
  /\ UNCHANGED <<leb, perms, shared, scall, sval, sisd, sprobes, rvars, tvars, hist>>

\* if self.is_disconnected() { return Err(SendError::Disconnected(value)); }
S_send_checked ==
  /\ spc = "send_checked"
  /\ IF sisd.res
     THEN sres' = SendErrDisconnected(sval) /\ spc' = "drop_notify"
     ELSE sres' = sres /\ spc' = "send_lock"
  /\ UNCHANGED <<leb, perms, shared, scall, sval, sisd, sprobes, rvars, tvars, hist>>

\* mutant: send goes on to the write without holding the Mutex
S_send_lock_skipped ==
  /\ spc = "send_lock"
  /\ spc' = "send_write"
  /\ UNCHANGED <<leb, perms, shared, scall, sval, sres, sisd, sprobes, rvars, tvars, hist>>

\* mutex.lock()
S_send_lock ==
  /\ spc = "send_lock"
  /\ lockOwner = "none"
  /\ lockOwner' = "S"
  /\ spc' = "send_write"
  /\ UNCHANGED <<leb, perms, slot, mutexRefs, condvarRefs, parked, scall, sval, sres, sisd, sprobes,
                 rvars, tvars, hist>>

\* mutant: the value is not stored
S_send_write_dropped ==
  /\ spc = "send_write"
  /\ slot' = slot
  /\ spc' = "send_unlock"
  /\ hist' = [hist EXCEPT !.written = TRUE, !.rDoneAtWrite = (hist.observe /\ rpc = "done")]
  /\ UNCHANGED <<leb, perms, mutexRefs, condvarRefs, lockOwner, parked, scall, sval, sres, sisd,
                 sprobes, rvars, tvars>>

\* *guard = Some(value)
S_send_write ==
  /\ spc = "send_write"
  /\ slot' = Some(sval)
  /\ spc' = "send_unlock"
  /\ hist' = [hist EXCEPT !.written = TRUE, !.rDoneAtWrite = (hist.observe /\ rpc = "done")]
  /\ UNCHANGED <<leb, perms,
                 mutexRefs, condvarRefs, lockOwner, parked, scall, sval, sres, sisd, sprobes,
                 rvars, tvars>>

\* the temporary MutexGuard is dropped at the end of the statement
S_send_unlock ==
  /\ spc = "send_unlock"
  /\ lockOwner' = "none"
  /\ spc' = "send_notify"
  /\ UNCHANGED <<leb, perms, slot, mutexRefs, condvarRefs, parked, scall, sval, sres, sisd, sprobes,
                 rvars, tvars, hist>>

\* condvar.notify_one(); Ok(()) -- self is dropped on the way out
S_send_notify ==
  /\ spc = "send_notify"
  /\ notify_one
  /\ sres' = SendOk
  /\ spc' = "drop_notify"
  /\ hist' = [hist EXCEPT !.wokenBy = IF hist.observe /\ parked THEN "send" ELSE @]
  /\ UNCHANGED <<leb, perms, slot, mutexRefs, condvarRefs, lockOwner, scall, sval, sisd, sprobes,
                 R_rest, tvars>>

\* the user drops the Sender without sending
S_drop ==
  /\ spc = "idle"
  /\ scall' = "drop"
  /\ spc' = "drop_notify"
  /\ hist' = [hist EXCEPT !.sStartInR = Receiving]
  /\ UNCHANGED <<leb, perms, shared, sval, sres, sisd, sprobes, rvars, tvars>>

\* impl Drop for Sender: condvar.notify_one(), before any field is released
S_drop_notify ==
  /\ spc = "drop_notify"
  /\ notify_one
  /\ spc' = "drop_mutex"
  /\ hist' = [hist EXCEPT !.wokenBy = IF hist.observe /\ parked THEN "drop" ELSE @]
  /\ UNCHANGED <<leb, perms,
                 slot, mutexRefs, condvarRefs, lockOwner, scall, sval, sres, sisd, sprobes,
                 R_rest, tvars>>

\* mutant: the Sender's reference to the Mutex is leaked
S_drop_mutex_leaked ==
  /\ spc = "drop_mutex"
  /\ spc' = "drop_condvar"
  /\ UNCHANGED <<leb, perms, shared, scall, sval, sres, sisd, sprobes, rvars, tvars, hist>>

\* drop glue, field 0: the Arc<Mutex<Option<T>>> is released
S_drop_mutex ==
  /\ spc = "drop_mutex"
  /\ mutexRefs' = mutexRefs \ {"S"}
  /\ spc' = "drop_condvar"
  /\ UNCHANGED <<leb, perms, slot, condvarRefs, lockOwner, parked, scall, sval, sres, sisd, sprobes,
                 rvars, tvars, hist>>

\* drop glue, field 1: the Arc<Condvar> is released; the Sender is gone
S_drop_condvar ==
  /\ spc = "drop_condvar"
  /\ condvarRefs' = condvarRefs \ {"S"}
  /\ spc' = "done"
  /\ hist' = [hist EXCEPT !.sDoneAt = elapsed]
  /\ UNCHANGED <<leb, perms, slot, mutexRefs, lockOwner, parked, scall, sval, sres, sisd, sprobes,
                 rvars, tvars>>

\* the steps of a Sender call that has started
SStep ==
  \/ S_isd_mutex \/ S_isd_condvar \/ S_send_checked \/ S_send_lock \/ S_send_write
  \/ S_send_unlock \/ S_send_notify \/ S_drop_notify \/ S_drop_mutex \/ S_drop_condvar


\* ---------------------------------------------------------- Receiver thread
\* the user calls Receiver::is_disconnected(&self)
R_is_disconnected ==
  /\ rpc = "idle" /\ rprobes < MaxProbes
  /\ rpc' = "isd_mutex"
  /\ rprobes' = rprobes + 1
  /\ hist' = [hist EXCEPT !.rprobe = [start |-> HandleStatus("S"), ret |-> "none", res |-> FALSE]]
  /\ UNCHANGED <<leb, perms, shared, svars, rcall, rres, risd, timeout, timer, timedOut, tvars>>

\* is_disconnected returns b to the user
R_isd_return(b) ==
  /\ rpc' = "idle"
  /\ risd' = b
  /\ hist' = [hist EXCEPT !.rprobe.ret = HandleStatus("S"), !.rprobe.res = b,
                          !.rTrueAt = IF hist.observe /\ b /\ @ = 0 THEN rprobes ELSE @]

\* mutant: the left operand compares the count with 2
R_isd_mutex_two ==
  /\ rpc = "isd_mutex"
  /\ IF strong_count(mutexRefs) = 2
     THEN R_isd_return(TRUE)
     ELSE rpc' = "isd_condvar" /\ UNCHANGED <<risd, hist>>
  /\ UNCHANGED <<leb, perms, shared, svars, rcall, rres, rprobes, timeout, timer, timedOut, tvars>>

\* Arc::strong_count(mutex) == 1 || ...: the left operand
R_isd_mutex ==
  /\ rpc = "isd_mutex"
  /\ IF strong_count(mutexRefs) = 1
     THEN R_isd_return(TRUE)
     ELSE rpc' = "isd_condvar" /\ UNCHANGED <<risd, hist>>
  /\ UNCHANGED <<leb, perms, shared, svars, rcall, rres, rprobes, timeout, timer, timedOut, tvars>>

\* ... || Arc::strong_count(condvar) == 1: the right operand
R_isd_condvar ==
  /\ rpc = "isd_condvar"
  /\ R_isd_return(strong_count(condvarRefs) = 1)
  /\ UNCHANGED <<leb, perms, shared, svars, rcall, rres, rprobes, timeout, timer, timedOut, tvars>>

\* the user calls Receiver::recv(self)
R_recv ==
  /\ rpc = "idle"
  /\ rcall' = "recv"
  /\ rpc' = "try_unwrap"
  /\ hist' = [hist EXCEPT !.sDoneAtRStart = (spc = "done")]
  /\ UNCHANGED <<leb, perms, shared, svars, rres, risd, rprobes, timeout, timer, timedOut, tvars>>

\* mutant: recv_timeout waits before its first ownership check
R_recv_timeout_wait_first ==
  /\ rpc = "idle"
  /\ \E t \in 0..MaxTimeout : timeout' = t
  /\ rcall' = "recv_timeout"
  /\ rpc' = "lock"
  /\ hist' = [hist EXCEPT !.sDoneAtRStart = (spc = "done")]
  /\ UNCHANGED <<leb, perms, shared, svars, rres, risd, rprobes, timer, timedOut, tvars>>

\* the user calls Receiver::recv_timeout(self, timeout)
R_recv_timeout ==
  /\ rpc = "idle"
  /\ \E t \in 0..MaxTimeout : timeout' = t
  /\ rcall' = "recv_timeout"
  /\ rpc' = "try_unwrap"
  /\ hist' = [hist EXCEPT !.sDoneAtRStart = (spc = "done")]
  /\ UNCHANGED <<leb, perms, shared, svars, rres, risd, rprobes, timer, timedOut, tvars>>

\* mutant: the Option's value is discarded
ok_or_discarded(opt, err) == err

\* Option::ok_or on the Option taken out of the Mutex
ok_or(opt, err) == IF opt = None THEN err ELSE RecvOk(opt[1])

\* the error _recv was given for a disconnected channel
disconnect_err == RecvDisconnected

\* mutant: the slot is taken whatever the strong count is
R_try_unwrap_eager ==
  /\ rpc = "try_unwrap"
  /\ mutexRefs' = mutexRefs \ {"R"}
  /\ rres' = ok_or(slot, disconnect_err)
  /\ slot' = None
  /\ rpc' = "ret_condvar"
  /\ UNCHANGED <<leb, perms, condvarRefs, lockOwner, parked, svars, rcall, risd, rprobes,
                 timeout, timer, timedOut, tvars, hist>>

\* mutant: a value in the slot is returned although the Sender still holds
\* its reference
R_try_unwrap_value_ready ==
  /\ rpc = "try_unwrap"
  /\ IF strong_count(mutexRefs) = 1 \/ slot # None
     THEN /\ mutexRefs' = mutexRefs \ {"R"}
          /\ rres' = ok_or(slot, disconnect_err)
          /\ slot' = None
          /\ rpc' = "ret_condvar"
     ELSE /\ rpc' = "lock"
          /\ UNCHANGED <<mutexRefs, rres, slot>>
  /\ UNCHANGED <<leb, perms, condvarRefs, lockOwner, parked, svars, rcall, risd, rprobes,
                 timeout, timer, timedOut, tvars, hist>>

\* match Arc::try_unwrap(mutex): Ok when this is the only strong reference
\* (the count goes from 1 to 0 atomically and the Mutex is moved out), and
\* then return mutex.into_inner().ok_or(disconnect_err); Err otherwise
R_try_unwrap ==
  /\ rpc = "try_unwrap"
  /\ IF strong_count(mutexRefs) = 1
     THEN /\ mutexRefs' = {}
          /\ rres' = ok_or(slot, disconnect_err)
          /\ slot' = None
          /\ rpc' = "ret_condvar"
     ELSE /\ rpc' = "lock"
          /\ UNCHANGED <<mutexRefs, rres, slot>>
  /\ UNCHANGED <<leb, perms, condvarRefs, lockOwner, parked, svars, rcall, risd, rprobes,
                 timeout, timer, timedOut, tvars, hist>>

\* mutex.lock(), the argument of cond_fn
R_lock ==
  /\ rpc = "lock"
  /\ lockOwner = "none"
  /\ lockOwner' = "R"
  /\ rpc' = "wait"
  /\ UNCHANGED <<leb, perms,
                 slot, mutexRefs, condvarRefs, parked, svars, rcall, rres, risd, rprobes,
                 timeout, timer, timedOut, tvars, hist>>

\* mutant: the Mutex stays locked while the thread is parked
R_wait_lock_held ==
  /\ rpc = "wait"
  /\ lockOwner' = lockOwner
  /\ parked' = TRUE
  /\ rpc' = "parked"
  /\ timer' = IF rcall = "recv_timeout" THEN timeout ELSE timer
  /\ hist' = [hist EXCEPT !.rwaited = TRUE, !.wokenBy = "none"]
  /\ UNCHANGED <<leb, perms, slot, mutexRefs, condvarRefs, svars, rcall, rres, risd, rprobes,
                 timeout, timedOut, tvars>>

\* condvar.wait(&mut guard) / condvar.wait_for(&mut guard, timeout): the
\* Mutex is released and the thread parked in one step; wait_for starts a
\* fresh timer of the full timeout
R_wait ==
  /\ rpc = "wait"
  /\ lockOwner' = "none"
  /\ parked' = TRUE
  /\ rpc' = "parked"
  /\ timer' = IF rcall = "recv_timeout" THEN timeout ELSE timer
  /\ hist' = [hist EXCEPT !.rwaited = TRUE, !.wokenBy = "none"]
  /\ UNCHANGED <<leb, perms, slot, mutexRefs, condvarRefs, svars, rcall, rres, risd, rprobes,
                 timeout, timedOut, tvars>>

\* wait_for: the timeout passes before any notification
R_wait_timed_out ==
  /\ rpc = "parked" /\ parked
  /\ rcall = "recv_timeout"
  /\ timer = 0
  /\ parked' = FALSE
  /\ timedOut' = TRUE
  /\ rpc' = "relock"
  /\ UNCHANGED <<leb, perms,
                 slot, mutexRefs, condvarRefs, lockOwner, svars, rcall, rres, risd, rprobes,
                 timeout, timer, tvars, hist>>

\* a wake-up without a notification
R_spurious_wakeup ==
  /\ rpc = "parked" /\ parked
  /\ spurious < MaxSpurious
  /\ spurious' = spurious + 1
  /\ parked' = FALSE
  /\ timedOut' = FALSE
  /\ rpc' = "relock"
  /\ UNCHANGED <<leb, perms,
                 slot, mutexRefs, condvarRefs, lockOwner, svars, rcall, rres, risd, rprobes,
                 timeout, timer, elapsed, hist>>

\* the wait re-acquires the Mutex before it returns
R_relock ==
  /\ rpc = "relock"
  /\ lockOwner = "none"
  /\ lockOwner' = "R"
  /\ rpc' = "unlock"
  /\ UNCHANGED <<leb, perms,
                 slot, mutexRefs, condvarRefs, parked, svars, rcall, rres, risd, rprobes,
                 timeout, timer, timedOut, tvars, hist>>

\* mutant: a timed-out wait is reported as a disconnect
R_unlock_wrong_error ==
  /\ rpc = "unlock"
  /\ lockOwner' = "none"
  /\ IF rcall = "recv_timeout" /\ timedOut
     THEN rres' = RecvDisconnected /\ rpc' = "tdrop_condvar"
     ELSE rres' = rres /\ rpc' = "try_unwrap"
  /\ UNCHANGED <<leb, perms, slot, mutexRefs, condvarRefs, parked, svars, rcall, risd, rprobes,
                 timeout, timer, timedOut, tvars, hist>>

\* mutant: a timed-out recv_timeout returns without releasing the
\* Receiver's references
R_unlock_receiver_kept ==
  /\ rpc = "unlock"
  /\ lockOwner' = "none"
  /\ IF rcall = "recv_timeout" /\ timedOut
     THEN rres' = RecvTimedOut /\ rpc' = "done"
     ELSE rres' = rres /\ rpc' = "try_unwrap"
  /\ UNCHANGED <<leb, perms, slot, mutexRefs, condvarRefs, parked, svars, rcall, risd, rprobes,
                 timeout, timer, timedOut, tvars, hist>>

\* mutant: the result of wait_for is ignored
R_unlock_timeout_ignored ==
  /\ rpc = "unlock"
  /\ lockOwner' = "none"
  /\ rres' = rres /\ rpc' = "try_unwrap"
  /\ UNCHANGED <<leb, perms, slot, mutexRefs, condvarRefs, parked, svars, rcall, risd, rprobes,
                 timeout, timer, timedOut, tvars, hist>>

\* cond_fn(..)?: the guard is dropped; Err(TimedOut) leaves _recv, Ok(())
\* goes round the loop
R_unlock ==
  /\ rpc = "unlock"
  /\ lockOwner' = "none"
  /\ IF rcall = "recv_timeout" /\ timedOut
     THEN rres' = RecvTimedOut /\ rpc' = "tdrop_condvar"
     ELSE rres' = rres /\ rpc' = "try_unwrap"
  /\ UNCHANGED <<leb, perms, slot, mutexRefs, condvarRefs, parked, svars, rcall, risd, rprobes,
                 timeout, timer, timedOut, tvars, hist>>

\* mutant: the Receiver's reference to the Condvar is leaked
R_ret_condvar_leaked ==
  /\ rpc = "ret_condvar"
  /\ rpc' = "done"
  /\ UNCHANGED <<leb, perms, shared, svars, rcall, rres, risd, rprobes,
                 timeout, timer, timedOut, tvars, hist>>

\* return after try_unwrap succeeded: the local condvar is released
R_ret_condvar ==
  /\ rpc = "ret_condvar"
  /\ condvarRefs' = condvarRefs \ {"R"}
  /\ rpc' = "done"
  /\ UNCHANGED <<leb, perms, slot, mutexRefs, lockOwner, parked, svars, rcall, rres, risd, rprobes,
                 timeout, timer, timedOut, tvars, hist>>

\* return of Err(TimedOut): the locals are released in reverse order of
\* declaration, condvar first
R_tdrop_condvar ==
  /\ rpc = "tdrop_condvar"
  /\ condvarRefs' = condvarRefs \ {"R"}
  /\ rpc' = "tdrop_mutex"
  /\ UNCHANGED <<leb, perms, slot, mutexRefs, lockOwner, parked, svars, rcall, rres, risd, rprobes,
                 timeout, timer, timedOut, tvars, hist>>

\* ... then mutex; the Receiver is gone
R_tdrop_mutex ==
  /\ rpc = "tdrop_mutex"
  /\ mutexRefs' = mutexRefs \ {"R"}
  /\ rpc' = "done"
  /\ UNCHANGED <<leb, perms,
                 slot, condvarRefs, lockOwner, parked, svars, rcall, rres, risd, rprobes,
                 timeout, timer, timedOut, tvars, hist>>

\* the user drops the Receiver without receiving (Receiver has no Drop impl)
R_drop ==
  /\ rpc = "idle"
  /\ rcall' = "drop"
  /\ rpc' = "drop_mutex"
  /\ UNCHANGED <<leb, perms,
                 shared, svars, rres, risd, rprobes, timeout, timer, timedOut, tvars, hist>>

\* drop glue, field 0
R_drop_mutex ==
  /\ rpc = "drop_mutex"
  /\ mutexRefs' = mutexRefs \ {"R"}
  /\ rpc' = "drop_condvar"
  /\ UNCHANGED <<leb, perms,
                 slot, condvarRefs, lockOwner, parked, svars, rcall, rres, risd, rprobes,
                 timeout, timer, timedOut, tvars, hist>>

\* drop glue, field 1
R_drop_condvar ==
  /\ rpc = "drop_condvar"
  /\ condvarRefs' = condvarRefs \ {"R"}
  /\ rpc' = "done"
  /\ UNCHANGED <<leb, perms, slot, mutexRefs, lockOwner, parked, svars, rcall, rres, risd, rprobes,
                 timeout, timer, timedOut, tvars, hist>>

\* the steps of a Receiver call that has started, spurious wake-ups left out
RStep ==
  \/ R_isd_mutex \/ R_isd_condvar \/ R_try_unwrap \/ R_lock \/ R_wait
  \/ R_wait_timed_out \/ R_relock \/ R_unlock \/ R_ret_condvar
  \/ R_tdrop_condvar \/ R_tdrop_mutex \/ R_drop_mutex \/ R_drop_condvar

\* ------------------------------------------------------------------- time
\* one tick of the clock while recv_timeout is running
Tick ==
  /\ rcall = "recv_timeout" /\ rpc # "done"
  /\ (rpc = "parked" /\ timer > 0) \/ elapsed < MaxElapsed
  /\ timer' = IF rpc = "parked" /\ timer > 0 THEN timer - 1 ELSE timer
  /\ elapsed' = IF elapsed < MaxElapsed THEN elapsed + 1 ELSE elapsed
  /\ hist' = [hist EXCEPT
                !.waited = IF hist.observe /\ rpc = "parked" /\ timer > 0 /\ @ <= timeout
                           THEN @ + 1 ELSE @]
  /\ UNCHANGED <<leb, perms, shared, svars, rpc, rcall, rres, risd, rprobes, timeout, timedOut,
                 spurious>>

\* ---------------------------------------------------------- specification
Next ==
  \/ S_is_disconnected \/ S_send \/ S_drop
  \/ S_isd_mutex \/ S_isd_condvar \/ S_send_checked \/ S_send_lock \/ S_send_write
  \/ S_send_unlock \/ S_send_notify \/ S_drop_notify \/ S_drop_mutex \/ S_drop_condvar
  \/ R_is_disconnected \/ R_recv \/ R_recv_timeout \/ R_drop
  \/ R_isd_mutex \/ R_isd_condvar \/ R_try_unwrap \/ R_lock \/ R_wait
  \/ R_wait_timed_out \/ R_spurious_wakeup \/ R_relock \/ R_unlock \/ R_ret_condvar
  \/ R_tdrop_condvar \/ R_tdrop_mutex \/ R_drop_mutex \/ R_drop_condvar
  \/ Tick

Spec == Init /\ [][Next]_vars

\* the same program, with the observations of hist.observe recorded
ObsInit ==
  /\ slot = None /\ mutexRefs = {"S", "R"} /\ condvarRefs = {"S", "R"}
  /\ lockOwner = "none" /\ parked = FALSE
  /\ spc = "idle" /\ scall = "none" /\ sval = 0 /\ sres = NoResult
  /\ sisd = [ret |-> "idle", res |-> FALSE] /\ sprobes = 0
  /\ rpc = "idle" /\ rcall = "none" /\ rres = NoResult /\ risd = FALSE /\ rprobes = 0
  /\ timeout = 0 /\ timer = 0 /\ timedOut = FALSE /\ spurious = 0 /\ elapsed = 0
  /\ hist = [HistInit EXCEPT !.observe = TRUE]
  /\ leb = LebIdle /\ perms = PermsIdle

ObsSpec == ObsInit /\ [][Next]_vars

\* Each thread that can run its next instruction eventually runs it, a timer
\* that is due eventually fires and the clock advances.  Nothing obliges the
\* user to start a call, and nothing obliges a spurious wake-up to happen.
FairSpec == Spec /\ WF_vars(SStep) /\ WF_vars(RStep) /\ WF_vars(Tick)


\* ================================================================ properties
TypeOK ==
  /\ slot \in {None} \cup {Some(v) : v \in Values}
  /\ mutexRefs \subseteq {"S", "R"} /\ condvarRefs \subseteq {"S", "R"}
  /\ lockOwner \in {"none", "S", "R"}
  /\ parked \in BOOLEAN
  /\ timer \in 0..MaxTimeout /\ timeout \in 0..MaxTimeout
  /\ elapsed \in 0..MaxElapsed /\ spurious \in 0..MaxSpurious

\* a send that returned Ok(()) and whose Sender is completely disposed of
SendCompletedOk == scall = "send" /\ spc = "done" /\ sres = SendOk

\* ---------------------------------------------------------------------- C1
\* C1 (round trip): when send(v) has run to completion, the Sender's disposal
\* included, before recv() is called, send has returned Ok(()), recv never
\* waits on the condition variable and returns Ok(v).
C1_RoundTrip ==
  (rcall = "recv" /\ scall = "send" /\ hist.sDoneAtRStart) =>
     /\ sres = SendOk
     /\ ~hist.rwaited
     /\ rpc \in {"try_unwrap", "ret_condvar", "done"}
     /\ (rpc \in {"ret_condvar", "done"} => rres = RecvOk(sval))

C1_Witness ==
  /\ rcall = "recv" /\ scall = "send" /\ hist.sDoneAtRStart
  /\ rpc = "done" /\ rres = RecvOk(sval) /\ sval = MaxVal

\* ---------------------------------------------------------------------- C2
\* C2 (concurrent delivery): whenever a Sender thread calls send(v) and a
\* Receiver thread calls recv(), recv eventually returns, and returns Ok(v).
\* (Under FairSpec.  The code can end with the Sender finished and the
\* Receiver parked in condvar.wait: every notify_one of the Sender precedes
\* the release of its Arcs, and the Receiver checks ownership before it
\* takes the lock, so nothing is left to wake it.)
C2_ConcurrentDelivery ==
  (scall = "send" /\ rcall = "recv") ~> (rpc = "done" /\ rres = RecvOk(sval))

\* ---------------------------------------------------------------------- C3
\* C3 (concurrent disconnect): whenever the Sender is dropped without sending
\* and the Receiver calls recv(), recv eventually returns Err(Disconnected).
C3_ConcurrentDisconnect ==
  (scall = "drop" /\ rcall = "recv") ~> (rpc = "done" /\ rres = RecvDisconnected)

\* ---------------------------------------------------------------------- C4
\* C4 (early receiver disposal): when the Receiver has been dropped before
\* send(v) starts, every Sender.is_disconnected() that starts after the drop
\* returns true, send returns Err(SendError::Disconnected(v)) with the v it
\* was given, and the slot stays empty.
C4_EarlyReceiverDisposal ==
  /\ (hist.sprobe.start = "gone" /\ rcall = "drop" /\ hist.sprobe.ret # "none")
        => hist.sprobe.res
  /\ (scall = "send" /\ rcall = "drop" /\ hist.rDoneAtSStart) =>
        /\ slot = None
        /\ spc \notin {"send_lock", "send_write", "send_unlock", "send_notify"}
        /\ (spc \in {"drop_notify", "drop_mutex", "drop_condvar", "done"}
              => sres = SendErrDisconnected(sval))

C4_Witness ==
  /\ scall = "send" /\ rcall = "drop" /\ hist.rDoneAtSStart
  /\ spc = "done" /\ sres = SendErrDisconnected(MaxVal) /\ sprobes > 0

\* ---------------------------------------------------------------------- C5
\* C5 (early sender disposal): when the Sender has been completely dropped
\* without sending before recv() or recv_timeout(t) starts, every
\* Receiver.is_disconnected() that starts after the drop returns true, and
\* the call returns its Disconnected error without waiting on the condition
\* variable (so never TimedOut).
C5_EarlySenderDisposal ==
  /\ (hist.rprobe.start = "gone" /\ scall = "drop" /\ hist.rprobe.ret # "none")
        => hist.rprobe.res
  /\ (scall = "drop" /\ rcall \in {"recv", "recv_timeout"} /\ hist.sDoneAtRStart) =>
        /\ ~hist.rwaited
        /\ rpc \in {"try_unwrap", "ret_condvar", "done"}
        /\ (rpc \in {"ret_condvar", "done"} => rres = RecvDisconnected)

C5_Witness ==
  /\ scall = "drop" /\ rcall = "recv_timeout" /\ hist.sDoneAtRStart
  /\ timeout = MaxTimeout /\ rpc = "done" /\ rres = RecvDisconnected /\ rprobes > 0

\* ---------------------------------------------------------------------- C6
\* C6: when the Sender is dropped without sending while recv_timeout(t) is
\* running and fewer than t ticks have passed since the call when the drop
\* ends, recv_timeout returns Err(Disconnected), not Err(TimedOut).
C6_DropDuringRecvTimeout ==
  (/\ rcall = "recv_timeout" /\ scall = "drop" /\ hist.sStartInR
   /\ hist.sDoneAt >= 0 /\ hist.sDoneAt < timeout
   /\ rpc = "done")
     => rres = RecvDisconnected

\* ---------------------------------------------------------------------- C7
\* C7 (timeout race): when the Sender is not dropped without sending,
\* recv_timeout returns Ok(v) or Err(TimedOut), never Err(Disconnected), and
\* while it runs some thread or the clock can always take a step (no
\* deadlock).
C7_TimeoutRace ==
  (rcall = "recv_timeout" /\ scall # "drop") =>
     /\ rres \in {NoResult, RecvTimedOut} \cup
                 (IF scall = "send" THEN {RecvOk(sval)} ELSE {})
     /\ (rpc # "done" => ENABLED (SStep \/ RStep \/ Tick))

C7_Witness ==
  /\ rcall = "recv_timeout" /\ scall = "send" /\ hist.sStartInR
  /\ hist.rwaited /\ rpc = "done" /\ rres = RecvOk(sval)

\* ---------------------------------------------------------------------- C8
\* C8: once recv_timeout has returned Err(TimedOut), a send(v) that starts
\* afterwards sees the Receiver gone (its is_disconnected check is true) and
\* returns Err(SendError::Disconnected(v)).
C8_SendAfterTimedOut ==
  (scall = "send" /\ rcall = "recv_timeout" /\ rres = RecvTimedOut /\ hist.rDoneAtSStart) =>
     /\ (hist.sprobe.ret # "none" => hist.sprobe.res)
     /\ spc \notin {"send_lock", "send_write", "send_unlock", "send_notify"}
     /\ (spc \in {"drop_notify", "drop_mutex", "drop_condvar", "done"}
           => sres = SendErrDisconnected(sval))

C8_Witness ==
  /\ scall = "send" /\ rcall = "recv_timeout" /\ rres = RecvTimedOut /\ hist.rDoneAtSStart
  /\ spc = "done" /\ sres = SendErrDisconnected(sval)

\* ---------------------------------------------------------------------- C9
\* C9: when a send(v) concurrent with recv_timeout(t) returns Ok(()) and is
\* complete before t ticks have passed since recv_timeout was called,
\* recv_timeout returns Ok(v), not Err(TimedOut).
C9_SendBeforeTimeout ==
  (/\ rcall = "recv_timeout" /\ SendCompletedOk /\ hist.sStartInR
   /\ hist.sDoneAt >= 0 /\ hist.sDoneAt < timeout
   /\ rpc = "done")
     => rres = RecvOk(sval)

\* --------------------------------------------------------------------- C10
IsdStep == S_isd_mutex \/ S_isd_condvar \/ R_isd_mutex \/ R_isd_condvar
           \/ S_is_disconnected \/ R_is_disconnected

ProbeSound(p) ==
  p.ret # "none" =>
     /\ p.res => p.ret # "alive"
     /\ ~p.res => p.ret # "gone"
     /\ p.start = "gone" => p.res

C11_SlotFilledOnce ==
  [][(slot' # slot /\ slot' # None) =>
        /\ slot = None /\ ~hist.written
        /\ scall = "send" /\ spc = "send_write" /\ spc' = "send_unlock"
        /\ lockOwner = "S"
        /\ slot' = Some(sval)]_vars

C11_Witness == slot = Some(MaxVal) /\ spc = "send_unlock" /\ Receiving

\* --------------------------------------------------------------------- C12
\* C12: every step that empties a filled slot is the Receiver's successful
\* try_unwrap, which returns Ok of the value it found; a receive result is
\* set once and never changes, so at most one Ok(v) is ever returned.
C12_SlotConsumedOnce ==
  /\ [][(slot # None /\ slot' = None) =>
          /\ rpc = "try_unwrap" /\ rcall \in {"recv", "recv_timeout"}
          /\ rres = NoResult /\ rres' = RecvOk(slot[1])]_vars
  /\ [][rres' # rres => (rres = NoResult /\ rpc \in {"try_unwrap", "unlock"})]_vars
  /\ [](rres[1] = "Ok" => slot = None)

C12_Witness == rres = RecvOk(MaxVal) /\ slot = None /\ rpc = "done" /\ hist.rwaited

\* --------------------------------------------------------------------- C13
\* C13: each of the two strong counts is 2 until an endpoint starts to be
\* disposed of, never increases, goes down by at most one per step, an
\* endpoint whose disposal has not begun holds both references and one
\* whose disposal is over holds none, and both counts are 0 exactly when
\* both endpoints have been disposed of.
C13_Liveness ==
  /\ [][/\ mutexRefs' \subseteq mutexRefs /\ condvarRefs' \subseteq condvarRefs
        /\ strong_count(mutexRefs) - strong_count(mutexRefs') \in {0, 1}
        /\ strong_count(condvarRefs) - strong_count(condvarRefs') \in {0, 1}]_vars
  /\ []((scall = "none" /\ rcall = "none") =>
           (strong_count(mutexRefs) = 2 /\ strong_count(condvarRefs) = 2))
  /\ [](scall = "none" => HandleStatus("S") = "alive")
  /\ [](rcall = "none" => HandleStatus("R") = "alive")
  /\ [](spc = "done" <=> HandleStatus("S") = "gone")
  /\ [](rpc = "done" <=> HandleStatus("R") = "gone")
  /\ []((strong_count(mutexRefs) = 0 /\ strong_count(condvarRefs) = 0)
           <=> (spc = "done" /\ rpc = "done"))

C13_Witness ==
  /\ strong_count(mutexRefs) = 0 /\ strong_count(condvarRefs) = 0
  /\ scall = "send" /\ rcall = "recv_timeout" /\ rres = RecvOk(sval)

\* --------------------------------------------------------------------- C14
\* C14: a receive call returns Ok(v) only when send(v) has stored v into
\* the slot, and returns its Disconnected error only when the Sender's
\* disposal has released its reference to the slot and no value was ever
\* stored.
C14_RecvSound ==
  /\ rres[1] = "Ok" => (hist.written /\ scall = "send" /\ rres = RecvOk(sval))
  /\ rres = RecvDisconnected =>
        (~hist.written /\ "S" \notin mutexRefs /\ spc \in {"drop_condvar", "done"})

C14_Witness ==
  /\ rres = RecvDisconnected /\ hist.rwaited /\ rcall = "recv" /\ rpc = "done"

\* --------------------------------------------------------------------- C15
\* C15: whatever the Sender does (sends, is dropped, never acts), a call of
\* recv_timeout eventually returns Ok(v), Err(TimedOut) or Err(Disconnected).
C15_RecvTimeoutTerminates ==
  (rcall = "recv_timeout") ~>
     (rpc = "done" /\ rres[1] \in {"Ok", "TimedOut", "Disconnected"})

C15_Witness ==
  /\ rcall = "recv_timeout" /\ rpc = "done" /\ rres = RecvTimedOut
  /\ scall = "none" /\ spurious = MaxSpurious /\ timeout = MaxTimeout


\* ================================================================ nano-leb128
\* A 64-bit integer is the set of the positions of its 1 bits (bit 0 is the
\* least significant), a byte likewise with positions 0..7: "or" is union,
\* a shift moves the positions and drops those that leave the word.

\* 8 * mem::size_of::<i64>()
W == 64
\* 1 << 7
LEB128_HIGH_ORDER_BIT == 7
\* 1 << 6
LEB128_SIGN_BIT == 6
\* the buffer of the round-trip tests
TestBufLen == 10
\* buffers hold 0..MaxBuf bytes (plus a final byte and a pad)
MaxBuf == 11

Bits == 0..(W - 1)
Zero == {}
MinusOne == Bits              \* -1 as i64, u64::MAX as u64
LowOnes(k) == 0..(k - 1)      \* 2^k - 1
I64Max == LowOnes(W - 1)
I64Min == {W - 1}

\* the byte with the value n
ByteOf(n) == {i \in 0..7 : (n \div (2 ^ i)) % 2 = 1}

\* (value as u8) & !LEB128_HIGH_ORDER_BIT
Low7(x) == {i \in x : i < LEB128_HIGH_ORDER_BIT}
\* value >>= 7 on u64
Shr7(x) == {i - 7 : i \in {j \in x : j >= 7}}
\* value >>= 7 on i64: the sign bit is copied in
Sar7(x) == Shr7(x) \cup (IF (W - 1) \in x THEN (W - 7)..(W - 1) ELSE {})
\* i64::from(b) << shift, u64::from(b) << shift, for shift < W
Shl(b, shift) == {i + shift : i \in b} \cap Bits
\* !0 << shift
OnesFrom(shift) == {i \in Bits : i >= shift}

\* mutant: the continuation bit is left in the payload
payload_unmasked(byte) == byte

\* byte & !LEB128_HIGH_ORDER_BIT
payload(byte) == byte \ {LEB128_HIGH_ORDER_BIT}

\* mutant: only 0x00 is accepted as the tenth byte
sleb_overflow_strict(shift, byte) == shift = 63 /\ byte # ByteOf(0)

\* shift == 63 && byte != 0x00 && byte != !LEB128_HIGH_ORDER_BIT
sleb_overflow(shift, byte) == shift = 63 /\ byte # ByteOf(0) /\ byte # ByteOf(127)

\* shift == 63 && byte > 1
uleb_overflow(shift, byte) == shift = 63 /\ byte \notin {ByteOf(0), ByteOf(1)}

\* mutant: the sign is not extended
sign_extend_omitted(result, shift, byte) == result

\* if shift < 64 && (byte & LEB128_SIGN_BIT) != 0 { result |= !0 << shift; }
sign_extend(result, shift, byte) ==
  IF shift < W /\ LEB128_SIGN_BIT \in byte THEN result \cup OnesFrom(shift) ELSE result

\* mutant: the sign bit of the last byte is not looked at
sleb_last_any_sign(value, byte) == value = Zero \/ value = MinusOne

\* value == 0 && (byte & SIGN) == 0 || value == -1 && (byte & SIGN) != 0
sleb_last(value, byte) ==
  \/ value = Zero /\ LEB128_SIGN_BIT \notin byte
  \/ value = MinusOne /\ LEB128_SIGN_BIT \in byte

WriteOk(n) == <<"Ok", n>>
EncBufferOverflow == <<"LEB128EncodeError::BufferOverflow">>
ReadOk(v, n) == <<"Ok", v, n>>
DecBufferOverflow == <<"LEB128DecodeError::BufferOverflow">>
DecIntegerOverflow == <<"LEB128DecodeError::IntegerOverflow">>
\* a shift by W or more: a panic or a wrapped shift, depending on the build
ShiftOverflow == <<"shift overflow">>

\* mutant: the end of the buffer is reported with the other variant
eof_error_swapped == DecIntegerOverflow

\* .try_read_u8().map_err(|_| LEB128DecodeError::BufferOverflow)
eof_error == DecBufferOverflow

\* ------------------------------------------------------------------ inputs
Kinds == {"SLEB128", "ULEB128"}

\* values on both sides of every change of encoded length, of either sign
WordSamples ==
  {LowOnes(k) : k \in 0..W} \cup {Bits \ LowOnes(k) : k \in 0..W}
  \cup {{k} : k \in Bits} \cup {Bits \ {k} : k \in Bits}
  \cup {{i \in Bits : i % 2 = 0}, {i \in Bits : i % 2 = 1}}

ContSamples == {ByteOf(128), ByteOf(129), ByteOf(192), ByteOf(255)}
FinalSamples == {ByteOf(0), ByteOf(1), ByteOf(2), ByteOf(63), ByteOf(64), ByteOf(127)}

\* k continuation bytes (c1 and c2 in turn), then the bytes of tail
RawBuf(c1, c2, k, tail) == [i \in 1..k |-> IF i % 2 = 1 THEN c1 ELSE c2] \o tail

RawBufs ==
  {RawBuf(c1, c2, k, tail) :
     c1 \in ContSamples, c2 \in ContSamples, k \in 0..MaxBuf,
     tail \in {<<>>} \cup {<<f>> : f \in FinalSamples}
              \cup {<<f, ByteOf(0)>> : f \in FinalSamples}}

\* a call of write_into(buf) with buf = [0; cap], or of read_from(buf)
LebInit ==
  /\ ChanInit /\ perms = PermsIdle
  /\ leb \in
       {[LebIdle EXCEPT !.pc = "write_into", !.mode = "roundtrip",
                        !.kind = k, !.input = x, !.cap = c] :
           k \in Kinds, x \in WordSamples, c \in 0..MaxBuf}
       \cup
       {[LebIdle EXCEPT !.pc = "read_from", !.mode = "raw", !.kind = k, !.buf = b] :
           k \in Kinds, b \in RawBufs}

\* ------------------------------------------------------------------ encode
\* LEB128::write_into: a Writer over the zeroed buffer
write_into ==
  /\ leb.pc = "write_into"
  /\ leb' = [leb EXCEPT !.pc = "encode", !.value = leb.input, !.more = TRUE,
                        !.buf = [i \in 1..leb.cap |-> ByteOf(0)], !.wpos = 0]
  /\ UNCHANGED <<chanvars, perms>>

\* one pass of the loop of leb128_encode, given the value after the shift,
\* whether this byte is the last and the byte to write: try_write_u8 fails
\* when the buffer is full; after the last byte write_into returns
\* Ok(num_bytes_written)
EncodePass(value, last, byte) ==
  IF leb.wpos = leb.cap
  THEN leb' = [leb EXCEPT !.value = value, !.more = ~last,
                          !.pc = "encoded", !.wres = EncBufferOverflow]
  ELSE leb' = [leb EXCEPT !.value = value, !.more = ~last,
                          !.buf[leb.wpos + 1] = byte, !.wpos = leb.wpos + 1,
                          !.pc = IF last THEN "encoded" ELSE "encode",
                          !.wres = IF last THEN WriteOk(leb.wpos + 1) ELSE NoResult]

\* impl LEB128Encode for SLEB128: one pass of while more { .. }
SLEB128_leb128_encode ==
  /\ leb.pc = "encode" /\ leb.kind = "SLEB128"
  /\ LET byte == Low7(leb.value)
         value == Sar7(leb.value)
         last == sleb_last(value, byte)
     IN EncodePass(value, last, IF last THEN byte ELSE byte \cup {LEB128_HIGH_ORDER_BIT})
  /\ UNCHANGED <<chanvars, perms>>

\* impl LEB128Encode for ULEB128: one pass of loop { .. }
ULEB128_leb128_encode ==
  /\ leb.pc = "encode" /\ leb.kind = "ULEB128"
  /\ LET byte == Low7(leb.value)
         value == Shr7(leb.value)
     IN EncodePass(value, value = Zero,
                   IF value # Zero THEN byte \cup {LEB128_HIGH_ORDER_BIT} ELSE byte)
  /\ UNCHANGED <<chanvars, perms>>

\* ------------------------------------------------------------------ decode
\* LEB128::read_from: a Reader over the buffer; result = 0, shift = 0
StartDecode ==
  leb' = [leb EXCEPT !.pc = "decode", !.rpos = 0, !.result = Zero, !.shift = 0]

\* read_from(&buf) on a buffer given by the caller
read_from ==
  /\ leb.pc = "read_from"
  /\ StartDecode
  /\ UNCHANGED <<chanvars, perms>>

\* read_from(&buf) on the buffer write_into has just filled
read_from_written ==
  /\ leb.pc = "encoded" /\ leb.wres[1] = "Ok"
  /\ StartDecode
  /\ UNCHANGED <<chanvars, perms>>

\* impl LEB128Decode for SLEB128: one pass of the loop
SLEB128_leb128_decode ==
  /\ leb.pc = "decode" /\ leb.kind = "SLEB128"
  /\ IF leb.rpos = Len(leb.buf)
     THEN leb' = [leb EXCEPT !.pc = "decoded", !.rdres = eof_error]
     ELSE LET byte == leb.buf[leb.rpos + 1] IN
          IF sleb_overflow(leb.shift, byte)
          THEN leb' = [leb EXCEPT !.rpos = leb.rpos + 1, !.byte = byte,
                                  !.pc = "decoded", !.rdres = DecIntegerOverflow]
          ELSE IF leb.shift >= W
          THEN leb' = [leb EXCEPT !.rpos = leb.rpos + 1, !.byte = byte,
                                  !.pc = "decoded", !.rdres = ShiftOverflow]
          ELSE leb' = [leb EXCEPT !.rpos = leb.rpos + 1, !.byte = byte,
                                  !.result = leb.result \cup Shl(payload(byte), leb.shift),
                                  !.shift = leb.shift + 7,
                                  !.pc = IF LEB128_HIGH_ORDER_BIT \in byte
                                         THEN "decode" ELSE "sign_extend"]
  /\ UNCHANGED <<chanvars, perms>>

\* ... and what follows the loop; read_from returns (value, num_bytes_read)
SLEB128_sign_extend ==
  /\ leb.pc = "sign_extend"
  /\ LET result == sign_extend(leb.result, leb.shift, leb.byte) IN
     leb' = [leb EXCEPT !.result = result, !.pc = "decoded",
                        !.rdres = ReadOk(result, leb.rpos)]
  /\ UNCHANGED <<chanvars, perms>>

\* impl LEB128Decode for ULEB128: one pass of the loop
ULEB128_leb128_decode ==
  /\ leb.pc = "decode" /\ leb.kind = "ULEB128"
  /\ IF leb.rpos = Len(leb.buf)
     THEN leb' = [leb EXCEPT !.pc = "decoded", !.rdres = eof_error]
     ELSE LET byte == leb.buf[leb.rpos + 1] IN
          IF uleb_overflow(leb.shift, byte)
          THEN leb' = [leb EXCEPT !.rpos = leb.rpos + 1, !.byte = byte,
                                  !.pc = "decoded", !.rdres = DecIntegerOverflow]
          ELSE IF leb.shift >= W
          THEN leb' = [leb EXCEPT !.rpos = leb.rpos + 1, !.byte = byte,
                                  !.pc = "decoded", !.rdres = ShiftOverflow]
          ELSE LET result == leb.result \cup Shl(payload(byte), leb.shift) IN
               IF LEB128_HIGH_ORDER_BIT \in byte
               THEN leb' = [leb EXCEPT !.rpos = leb.rpos + 1, !.byte = byte,
                                       !.result = result, !.shift = leb.shift + 7]
               ELSE leb' = [leb EXCEPT !.rpos = leb.rpos + 1, !.byte = byte,
                                       !.result = result, !.pc = "decoded",
                                       !.rdres = ReadOk(result, leb.rpos + 1)]
  /\ UNCHANGED <<chanvars, perms>>

LebNext ==
  \/ write_into \/ SLEB128_leb128_encode \/ ULEB128_leb128_encode
  \/ read_from \/ read_from_written
  \/ SLEB128_leb128_decode \/ SLEB128_sign_extend \/ ULEB128_leb128_decode

LebSpec == LebInit /\ [][LebNext]_vars

\* ------------------------------------------------------- nano-leb128 claims
LebTypeOK ==
  /\ leb.pc \in {"write_into", "encode", "encoded", "read_from", "decode",
                 "sign_extend", "decoded"}
  /\ leb.kind \in Kinds /\ leb.mode \in {"roundtrip", "raw"}
  /\ leb.input \subseteq Bits /\ leb.value \subseteq Bits /\ leb.result \subseteq Bits
  /\ leb.cap \in 0..MaxBuf /\ leb.wpos \in 0..leb.cap
  /\ leb.rpos \in 0..Len(leb.buf)
  /\ \A i \in 1..Len(leb.buf) : leb.buf[i] \subseteq 0..7

\* the call of write_into has returned, and read_from (if it ran) too
RoundTripDone == leb.mode = "roundtrip" /\ leb.pc = "decoded"

\* C16: for an i64 x of the sample, SLEB128::from(x).write_into(buf) with a
\* 10-byte buffer returns Ok(n0), and SLEB128::read_from(buf) then returns
\* Ok((x, n1)) with n1 = n0.
C16_SlebRoundTrip ==
  (leb.kind = "SLEB128" /\ leb.mode = "roundtrip" /\ leb.cap = TestBufLen) =>
     /\ leb.wres # EncBufferOverflow
     /\ leb.pc \in {"encoded", "decode", "sign_extend", "decoded"} =>
           (leb.wres = WriteOk(leb.wpos) /\ leb.wpos >= 1)
     /\ leb.pc = "decoded" => leb.rdres = ReadOk(leb.input, leb.wres[2])

\* i64::MIN makes the trip in ten bytes
C16_Witness ==
  /\ leb.kind = "SLEB128" /\ RoundTripDone /\ leb.cap = TestBufLen
  /\ leb.input = I64Min /\ leb.rdres = ReadOk(I64Min, 10)
  /\ leb.buf[10] = ByteOf(127)

\* C17: for a u64 x of the sample, ULEB128::from(x).write_into(buf) with a
\* 10-byte buffer returns Ok(n0), and ULEB128::read_from(buf) then returns
\* Ok((x, n1)) with n1 = n0.
C17_UlebRoundTrip ==
  (leb.kind = "ULEB128" /\ leb.mode = "roundtrip" /\ leb.cap = TestBufLen) =>
     /\ leb.wres # EncBufferOverflow
     /\ leb.pc \in {"encoded", "decode", "decoded"} =>
           (leb.wres = WriteOk(leb.wpos) /\ leb.wpos >= 1)
     /\ leb.pc = "decoded" => leb.rdres = ReadOk(leb.input, leb.wres[2])

\* u64::MAX makes the trip in ten bytes
C17_Witness ==
  /\ leb.kind = "ULEB128" /\ RoundTripDone /\ leb.cap = TestBufLen
  /\ leb.input = MinusOne /\ leb.rdres = ReadOk(MinusOne, 10)
  /\ leb.buf[10] = ByteOf(1)

\* the buffer holds nine continuation bytes and a tenth byte that does not
\* fit: for ULEB128 a byte above 1, for SLEB128 a byte other than 0x00, 0x7F
TenthByteOverflows(kind, buf) ==
  /\ Len(buf) >= 10
  /\ \A i \in 1..9 : 7 \in buf[i]
  /\ IF kind = "ULEB128" THEN buf[10] \cap (1..7) # {}
                         ELSE buf[10] # {} /\ buf[10] # 0..6

\* C18: read_from returns IntegerOverflow exactly when the buffer reaches a
\* tenth byte that cannot be represented; it never reads more than ten bytes
\* and never shifts by 64 or more.
C18_IntegerOverflow ==
  /\ leb.pc = "decoded" =>
        (leb.rdres = DecIntegerOverflow <=> TenthByteOverflows(leb.kind, leb.buf))
  /\ leb.rdres = DecIntegerOverflow => (leb.shift = 63 /\ leb.rpos = 10)
  /\ leb.rpos <= 10
  /\ leb.pc = "decode" => leb.shift <= 63
  /\ leb.rdres # ShiftOverflow

\* nine 0x80 and then 0x01, read as SLEB128
C18_Witness ==
  /\ leb.kind = "SLEB128" /\ leb.mode = "raw" /\ leb.pc = "decoded"
  /\ leb.rdres = DecIntegerOverflow /\ leb.rpos = 10
  /\ leb.buf = [i \in 1..10 |-> IF i < 10 THEN ByteOf(128) ELSE ByteOf(1)]

\* every byte of the buffer has the continuation bit set
AllContinuation(buf) == \A i \in 1..Len(buf) : 7 \in buf[i]

\* C19: read_from returns BufferOverflow whenever the buffer ends before a
\* byte with the continuation bit clear and no integer overflow comes first;
\* the empty buffer is such a buffer.
C19_DecodeBufferOverflow ==
  /\ (/\ leb.pc = "decoded"
      /\ AllContinuation(leb.buf)
      /\ ~TenthByteOverflows(leb.kind, leb.buf)) => leb.rdres = DecBufferOverflow
  /\ (leb.pc = "decoded" /\ leb.buf = <<>>) => leb.rdres = DecBufferOverflow

\* nine continuation bytes and nothing after them
C19_Witness ==
  /\ leb.mode = "raw" /\ leb.pc = "decoded" /\ leb.rdres = DecBufferOverflow
  /\ Len(leb.buf) = 9 /\ leb.rpos = 9 /\ leb.shift = 63

\* the greatest element of a set of bit positions, -1 for the empty set
TopBit(x) == IF x = {} THEN -1 ELSE CHOOSE i \in x : \A j \in x : j <= i

\* the number of bytes of the shortest encoding: the bits of the value (for
\* i64 in two's complement, the sign bit included) in groups of seven
EncodedLen(kind, x) ==
  LET bits == IF kind = "ULEB128" THEN TopBit(x) + 1
              ELSE IF (W - 1) \in x THEN TopBit(Bits \ x) + 2
              ELSE TopBit(x) + 2
      groups == (bits + 6) \div 7
  IN IF groups = 0 THEN 1 ELSE groups

\* C20: write_into returns BufferOverflow if and only if the buffer is
\* shorter than the encoded length of the value, which is at most 10;
\* i64::MAX and u64::MAX need 10 bytes and fail with a 9-byte buffer.
C20_EncodeBufferOverflow ==
  leb.mode = "roundtrip" =>
     LET n == EncodedLen(leb.kind, leb.input)
         max == IF leb.kind = "SLEB128" THEN I64Max ELSE MinusOne
     IN /\ n \in 1..10
        /\ leb.pc = "encoded" => leb.wres # NoResult
        /\ leb.wres # NoResult =>
              /\ leb.wres = EncBufferOverflow <=> leb.cap < n
              /\ leb.wres[1] = "Ok" => leb.wres = WriteOk(n)
        /\ leb.input = max =>
              /\ n = 10
              /\ (leb.cap = 9 /\ leb.pc = "encoded") => leb.wres = EncBufferOverflow

\* i64::MAX into a 9-byte buffer
C20_Witness ==
  /\ leb.kind = "SLEB128" /\ leb.mode = "roundtrip" /\ leb.pc = "encoded"
  /\ leb.input = I64Max /\ leb.cap = 9 /\ leb.wpos = 9
  /\ leb.wres = EncBufferOverflow

\* =============================================================== nano-fs-perms
\* A u32 is the set of the positions of its 1 bits, as the 64-bit words above.

\* the bits of u32, the field of Perms
W32 == 32
\* the inputs of a run OR together at most MaxOrs constants
MaxOrs == 2

U32Bits == 0..(W32 - 1)

\* the u32 written as an octal literal, most significant digit first
Octal(digits) ==
  UNION {{3 * (Len(digits) - k) + i : i \in {j \in 0..2 : (digits[k] \div (2 ^ j)) % 2 = 1}} :
           k \in 1..Len(digits)}

\* Self(value): the tuple struct around the u32
Self(value) == <<"Perms", value>>

NONE == Self(Octal(<<0>>))
OWNER_READ == Self(Octal(<<4, 0, 0>>))
OWNER_WRITE == Self(Octal(<<2, 0, 0>>))
OWNER_EXEC == Self(Octal(<<1, 0, 0>>))
OWNER_ALL == Self(Octal(<<7, 0>>))
GROUP_READ == Self(Octal(<<4, 0>>))
GROUP_WRITE == Self(Octal(<<2, 0>>))
GROUP_EXEC == Self(Octal(<<1, 0>>))
GROUP_ALL == Self(Octal(<<7, 0>>))
OTHERS_READ == Self(Octal(<<4>>))
OTHERS_WRITE == Self(Octal(<<2>>))
OTHERS_EXEC == Self(Octal(<<1>>))
OTHERS_ALL == Self(Octal(<<7>>))
ALL == Self(Octal(<<7, 7, 7>>))
SET_UID == Self(Octal(<<4, 0, 0, 0>>))
SET_GID == Self(Octal(<<2, 0, 0, 0>>))
STICKY_BIT == Self(Octal(<<1, 0, 0, 0>>))
MASK == Self(Octal(<<7, 7, 7, 7>>))

\* the associated consts of Perms by name
PermsConst ==
  [NONE |-> NONE, OWNER_READ |-> OWNER_READ, OWNER_WRITE |-> OWNER_WRITE,
   OWNER_EXEC |-> OWNER_EXEC, OWNER_ALL |-> OWNER_ALL, GROUP_READ |-> GROUP_READ,
   GROUP_WRITE |-> GROUP_WRITE, GROUP_EXEC |-> GROUP_EXEC, GROUP_ALL |-> GROUP_ALL,
   OTHERS_READ |-> OTHERS_READ, OTHERS_WRITE |-> OTHERS_WRITE,
   OTHERS_EXEC |-> OTHERS_EXEC, OTHERS_ALL |-> OTHERS_ALL, ALL |-> ALL,
   SET_UID |-> SET_UID, SET_GID |-> SET_GID, STICKY_BIT |-> STICKY_BIT, MASK |-> MASK]

\* impl From<Perms> for u32: perms.0
u32_from(p) == p[2]

\* impl ops::BitAnd for Perms
bitand(a, b) == Self(a[2] \cap b[2])
\* impl ops::BitOr for Perms
bitor(a, b) == Self(a[2] \cup b[2])

PermsOk(p) == <<"Ok", p>>
PermsTryFromError == <<"Err", "PermsTryFromError">>

\* mutant: the special bits are rejected
try_from_no_special(value) ==
  IF value \cap (U32Bits \ ALL[2]) # {} THEN PermsTryFromError ELSE PermsOk(Self(value))

\* impl TryFrom<u32> for Perms: value & !Perms::MASK.0 != 0
try_from(value) ==
  IF value \cap (U32Bits \ MASK[2]) # {} THEN PermsTryFromError ELSE PermsOk(Self(value))

\* Perms::is_valid
is_valid(value) == try_from(value)[1] = "Ok"

\* mutant: the exec bit alone is shown in upper case
exec_repr_upper(exec, special, lower, upper) ==
  IF exec /\ ~special THEN "X"
  ELSE IF exec /\ special THEN lower
  ELSE IF ~exec /\ special THEN upper
  ELSE "-"

\* match (exec, special) of fmt: "x", the lower-case letter, the upper-case
\* letter, or the "-" the array was filled with
exec_repr(exec, special, lower, upper) ==
  IF exec /\ ~special THEN "x"
  ELSE IF exec /\ special THEN lower
  ELSE IF ~exec /\ special THEN upper
  ELSE "-"

\* self & c == c
has(p, c) == bitand(p, c) = c

\* impl fmt::Display for Perms: the nine strings written to the formatter
fmt(p) ==
  <<IF has(p, OWNER_READ) THEN "r" ELSE "-",
    IF has(p, OWNER_WRITE) THEN "w" ELSE "-",
    exec_repr(has(p, OWNER_EXEC), has(p, SET_UID), "s", "S"),
    IF has(p, GROUP_READ) THEN "r" ELSE "-",
    IF has(p, GROUP_WRITE) THEN "w" ELSE "-",
    exec_repr(has(p, GROUP_EXEC), has(p, SET_GID), "s", "S"),
    IF has(p, OTHERS_READ) THEN "r" ELSE "-",
    IF has(p, OTHERS_WRITE) THEN "w" ELSE "-",
    exec_repr(has(p, OTHERS_EXEC), has(p, STICKY_BIT), "t", "T")>>

\* ------------------------------------------------------------------ inputs
\* every u32 inside 0o7777, and values with one bit outside it
U32Samples ==
  SUBSET (0..11)
  \cup {low \cup {k} : low \in {{}, 0..11, {0}, {11}, {2, 5, 8}}, k \in 12..(W32 - 1)}
  \cup {U32Bits, 12..(W32 - 1)}

\* a run either converts a u32 or ORs constants together
PermsInit ==
  /\ ChanInit /\ leb = LebIdle
  /\ perms \in {[PermsIdle EXCEPT !.pc = "try_from", !.value = v] : v \in U32Samples}
               \cup {[PermsIdle EXCEPT !.pc = "build", !.built = NONE, !.names = {}]}

\* ----------------------------------------------------------------- actions
\* Perms::try_from(value)
Perms_try_from ==
  /\ perms.pc = "try_from"
  /\ perms' = [perms EXCEPT !.pc = "is_valid", !.res = try_from(perms.value)]
  /\ UNCHANGED <<chanvars, leb>>

\* Perms::is_valid(value)
Perms_is_valid ==
  /\ perms.pc = "is_valid"
  /\ perms' = [perms EXCEPT !.pc = IF perms.res[1] = "Ok" THEN "fmt" ELSE "done",
                            !.valid = is_valid(perms.value),
                            !.built = IF perms.res[1] = "Ok" THEN perms.res[2] ELSE NONE]
  /\ UNCHANGED <<chanvars, leb>>

\* perms | Perms::C for one of the consts
Perms_bitor ==
  /\ perms.pc = "build" /\ Cardinality(perms.names) < MaxOrs
  /\ \E c \in DOMAIN PermsConst :
        /\ c \notin perms.names
        /\ perms' = [perms EXCEPT !.built = bitor(perms.built, PermsConst[c]),
                                  !.names = perms.names \cup {c}]
  /\ UNCHANGED <<chanvars, leb>>

\* u32::from(perms) of the Perms built
Perms_into_u32 ==
  /\ perms.pc = "build" /\ perms.names # {}
  /\ perms' = [perms EXCEPT !.pc = "fmt", !.value = u32_from(perms.built)]
  /\ UNCHANGED <<chanvars, leb>>

\* perms.to_string(), format!("{}", perms)
Perms_fmt ==
  /\ perms.pc = "fmt"
  /\ perms' = [perms EXCEPT !.pc = "done", !.repr = fmt(perms.built)]
  /\ UNCHANGED <<chanvars, leb>>

PermsNext ==
  \/ Perms_try_from \/ Perms_is_valid \/ Perms_bitor \/ Perms_into_u32 \/ Perms_fmt

PermsSpec == PermsInit /\ [][PermsNext]_vars

\* ----------------------------------------------------- nano-fs-perms claims
PermsTypeOK ==
  /\ perms.pc \in {"try_from", "is_valid", "build", "fmt", "done"}
  /\ perms.value \subseteq U32Bits /\ perms.built[2] \subseteq U32Bits
  /\ perms.names \subseteq DOMAIN PermsConst
  /\ Len(perms.repr) \in {0, 9}

\* the members each aggregate const is documented to be the OR of
AggregateMembers ==
  [OWNER_ALL |-> {"OWNER_READ", "OWNER_WRITE", "OWNER_EXEC"},
   GROUP_ALL |-> {"GROUP_READ", "GROUP_WRITE", "GROUP_EXEC"},
   OTHERS_ALL |-> {"OTHERS_READ", "OTHERS_WRITE", "OTHERS_EXEC"},
   ALL |-> {"OWNER_ALL", "GROUP_ALL", "OTHERS_ALL"},
   MASK |-> {"ALL", "SET_UID", "SET_GID", "STICKY_BIT"}]

\* the value each aggregate const is documented to have
AggregateValue ==
  [OWNER_ALL |-> Octal(<<7, 0, 0>>), GROUP_ALL |-> Octal(<<7, 0>>),
   OTHERS_ALL |-> Octal(<<7>>), ALL |-> Octal(<<7, 7, 7>>),
   MASK |-> Octal(<<7, 7, 7, 7>>)]

\* the OR of the consts named
OrOf(names) == Self(UNION {PermsConst[c][2] : c \in names})

\* C21: a Perms made of one aggregate const (OWNER_ALL, GROUP_ALL,
\* OTHERS_ALL, ALL, MASK) equals the OR of the documented members of that
\* const and converts to its documented value (0o700, 0o70, 0o7, 0o777,
\* 0o7777).
C21_AggregateConstants ==
  \A c \in DOMAIN AggregateMembers :
     (perms.pc = "done" /\ perms.names = {c}) =>
        /\ perms.built = OrOf(AggregateMembers[c])
        /\ perms.value = AggregateValue[c]

\* no bit of the value lies outside 0o7777
InsideMask(value) == value \subseteq 0..11

\* the consts of one permission bit each
SingleBitConsts ==
  {"OWNER_READ", "OWNER_WRITE", "OWNER_EXEC", "GROUP_READ", "GROUP_WRITE", "GROUP_EXEC",
   "OTHERS_READ", "OTHERS_WRITE", "OTHERS_EXEC", "SET_UID", "SET_GID", "STICKY_BIT"}

\* C22: Perms::try_from(n) is Ok exactly when n has no bit outside 0o7777;
\* then u32::from of the result is n and the result is the OR of the consts
\* of the bits set in n; is_valid(n) is true exactly when try_from(n) is Ok.
C22_TryFrom ==
  (perms.res # NoResult) =>
     /\ perms.res[1] = "Ok" <=> InsideMask(perms.value)
     /\ perms.res[1] = "Ok" =>
           /\ u32_from(perms.res[2]) = perms.value
           /\ perms.res[2] =
                OrOf({c \in SingleBitConsts : PermsConst[c][2] \subseteq perms.value})
     /\ perms.pc \in {"fmt", "done"} => (perms.valid <=> perms.res[1] = "Ok")

\* 0o4755 is converted and found valid
C22_Witness ==
  /\ perms.pc = "done" /\ perms.value = Octal(<<4, 7, 5, 5>>)
  /\ perms.res = PermsOk(Self(Octal(<<4, 7, 5, 5>>))) /\ perms.valid = TRUE

\* the character of position 3g + 3 (g = 0 owner, 1 group, 2 others) for a
\* value v: exec is bit 6 - 3g, the special bit is bit 11 - g
ExecChar(v, g) ==
  LET exec == (6 - 3 * g) \in v
      special == (11 - g) \in v
      lower == IF g = 2 THEN "t" ELSE "s"
      upper == IF g = 2 THEN "T" ELSE "S"
  IN CASE exec /\ ~special -> "x"
       [] exec /\ special -> lower
       [] ~exec /\ special -> upper
       [] OTHER -> "-"

\* C23: Display of a valid Perms writes 9 characters: 'r' and 'w' (or '-')
\* for the read and write bits of owner, group and others, and for the exec
\* position 'x', 's'/'s'/'t', 'S'/'S'/'T' or '-'; 0o7777 gives "rwsrwsrwt"
\* and 0o7000 gives "--S--S--T".
C23_Display ==
  (perms.pc = "done" /\ perms.res # PermsTryFromError) =>
     LET v == u32_from(perms.built) IN
     /\ Len(perms.repr) = 9
     /\ \A g \in 0..2 :
          /\ perms.repr[3 * g + 1] = (IF (8 - 3 * g) \in v THEN "r" ELSE "-")
          /\ perms.repr[3 * g + 2] = (IF (7 - 3 * g) \in v THEN "w" ELSE "-")
          /\ perms.repr[3 * g + 3] = ExecChar(v, g)
     /\ v = Octal(<<7, 7, 7, 7>>) =>
           perms.repr = <<"r", "w", "s", "r", "w", "s", "r", "w", "t">>
     /\ v = Octal(<<7, 0, 0, 0>>) =>
           perms.repr = <<"-", "-", "S", "-", "-", "S", "-", "-", "T">>

\* 0o7000 converted from the integer and shown
C23_Witness ==
  /\ perms.pc = "done" /\ perms.res = PermsOk(Self(Octal(<<7, 0, 0, 0>>)))
  /\ perms.repr = <<"-", "-", "S", "-", "-", "S", "-", "-", "T">>

\* --------------------------------------------- nano-oneshot: the wait loop
\* C24: no notification of a Sender that acts while the Receiver is in recv
\* or recv_timeout is lost: the Receiver is never left parked in the wait
\* when the Sender has issued its last notification and is completely
\* disposed of.
C24_NoLostNotification ==
  ~(/\ Receiving /\ rpc = "parked" /\ parked
    /\ spc = "done" /\ hist.sStartInR)

\* C25: a Receiver woken by the notification of the Sender's disposal finds
\* itself sole owner at its next check: it does not fail the check and go
\* back to the lock and the wait.
C25_DropSignalAfterRelease ==
  hist.wokenBy = "drop" => rpc \notin {"lock", "wait"}

\* C26: send(v) never returns Ok(()) having stored v when the Receiver was
\* already disposed of (dropped, or consumed by a recv_timeout that timed out).
C26_SendCheckSynchronized ==
  sres = SendOk => ~hist.rDoneAtWrite

\* C27: the time recv_timeout(t) spends waiting is at most t in total.
C27_TotalWaitBounded ==
  rcall = "recv_timeout" => hist.waited <= timeout

\* C28: recv and recv_timeout decide on Ok or Disconnected only in a step in
\* which the Receiver holds the only reference to the slot; while the Sender
\* holds its reference the ownership check fails whatever the slot holds,
\* nothing is returned and the Receiver goes on to the lock and the wait.
C28_ReturnOnlyAsSoleOwner ==
  /\ [][(rres' # rres /\ rres'[1] \in {"Ok", "Disconnected"}) =>
          (rpc = "try_unwrap" /\ mutexRefs = {"R"})]_vars
  /\ [][(rpc = "try_unwrap" /\ "S" \in mutexRefs /\ rpc' # rpc) =>
          (rpc' = "lock" /\ rres' = NoResult /\ slot' = slot)]_vars
  /\ [][(rpc = "lock" /\ rpc' # rpc) => rpc' = "wait"]_vars
  /\ [][(rpc = "wait" /\ rpc' # rpc) => (rpc' = "parked" /\ parked')]_vars
  /\ [](rres[1] \in {"Ok", "Disconnected"} => "S" \notin mutexRefs)

\* the value is in the slot and send has returned, the Sender's drop has not
\* released its reference: the woken Receiver is about to wait again
C28_Witness ==
  /\ slot = Some(MaxVal) /\ sres = SendOk /\ "S" \in mutexRefs
  /\ Receiving /\ rpc = "wait" /\ hist.rwaited /\ rres = NoResult

\* the single liveness counter: an endpoint is counted until its disposal
\* releases the first of its two references
liveness == Cardinality({t \in {"S", "R"} : HandleStatus(t) = "alive"})

\* the answer p.res of an is_disconnected call is the answer "liveness = 1"
\* at some moment between its start and its return: true if the peer was
\* no longer counted at the start, false if it was still counted at the return
AsOneCounter(p) ==
  p.ret # "none" =>
     /\ p.start # "alive" => p.res
     /\ p.ret = "alive" => ~p.res

\* C29: the results of the code, which reads two reference counts, are
\* results of a single liveness counter decremented once per disposal: every
\* is_disconnected answer (send's own check included) is an answer of that
\* counter during the call, and the ownership check of recv and recv_timeout
\* succeeds exactly when that counter says the Sender is gone.
C29_SingleCounter ==
  /\ [](AsOneCounter(hist.sprobe) /\ AsOneCounter(hist.rprobe))
  /\ [][(rpc = "try_unwrap" /\ rpc' # rpc) =>
          ((rpc' = "ret_condvar") <=> (liveness = 1 /\ HandleStatus("R") = "alive"))]_vars
  /\ [][(spc = "send_checked" /\ spc' # spc) =>
          ((sres' = SendErrDisconnected(sval)) <=> hist.sprobe.res)]_vars
  /\ [](liveness = 2 => (strong_count(mutexRefs) = 2 /\ strong_count(condvarRefs) = 2))

\* a Sender call made wholly between the two releases of a timed-out
\* Receiver, which the count of the Condvar alone reveals
C29_Witness ==
  /\ rres = RecvTimedOut /\ rpc = "tdrop_mutex"
  /\ hist.sprobe.start = "dropping" /\ hist.sprobe.ret = "dropping" /\ hist.sprobe.res
  /\ sres = SendErrDisconnected(sval) /\ liveness = 1

\* C30: under fair scheduling every call of the Sender (send, drop,
\* is_disconnected) returns, whatever the Receiver is doing, and so does
\* every call of the Receiver other than recv and recv_timeout: each thread
\* is again and again outside such a call (idle, or done for good).  The
\* Receiver does not hold the Mutex while it is parked.
C30_OnlyRecvBlocks ==
  /\ []<>(spc \in {"idle", "done"})
  /\ []<>(Receiving \/ rpc \in {"idle", "done"})
  /\ [](rpc = "parked" => lockOwner # "R")

\* send has taken the lock and returned while the Receiver, which started
\* first, is parked in its wait
C30_Witness ==
  /\ scall = "send" /\ sres = SendOk /\ spc = "done" /\ hist.sStartInR
  /\ Receiving /\ hist.rwaited /\ rpc = "parked" /\ parked /\ lockOwner = "none"

\* C31: once a call of is_disconnected has returned true on an endpoint,
\* every later call of it on that endpoint returns true, a later send
\* stores nothing and returns Err(Disconnected(v)) with its own value, and
\* a later recv or recv_timeout returns from its first ownership check,
\* without taking the lock or waiting.
C31_DisconnectStable ==
  /\ (hist.sTrueAt > 0 /\ hist.sprobe.ret # "none") => hist.sprobe.res
  /\ (hist.rTrueAt > 0 /\ hist.rprobe.ret # "none") => hist.rprobe.res
  /\ (hist.sTrueAt > 0 /\ scall = "send") =>
        /\ spc \in {"isd_mutex", "isd_condvar", "send_checked", "drop_notify",
                    "drop_mutex", "drop_condvar", "done"}
        /\ sres \in {NoResult, SendErrDisconnected(sval)}
        /\ spc = "done" => sres = SendErrDisconnected(sval)
        /\ ~hist.written
  /\ (hist.rTrueAt > 0 /\ rcall \in {"recv", "recv_timeout"}) =>
        /\ rpc \in {"try_unwrap", "ret_condvar", "done"}
        /\ ~hist.rwaited
        /\ rpc = "done" => rres[1] \in {"Ok", "Disconnected"}

\* the first of the Sender's is_disconnected calls gave true; a second call
\* was made and then send returned the value
C31_Witness ==
  /\ hist.sTrueAt = 1 /\ sprobes = MaxProbes /\ hist.sprobe.res
  /\ scall = "send" /\ spc = "done" /\ sres = SendErrDisconnected(MaxVal)

\* C32: send returning Err(Disconnected(v)) and a receive call returning
\* Ok(v) never both occur, and send returning Ok(()) and a receive call
\* returning the Disconnected error never both occur.
C32_OutcomesConsistent ==
  /\ ~(sres = SendErrDisconnected(sval) /\ rres[1] = "Ok")
  /\ ~(sres = SendOk /\ rres = RecvDisconnected)
  /\ sres = SendErrDisconnected(sval) => (slot = None /\ ~hist.written)

\* send was refused while recv_timeout was running out of time
C32_Witness ==
  /\ sres = SendErrDisconnected(MaxVal) /\ spc = "done" /\ hist.sStartInR
  /\ rcall = "recv_timeout" /\ rres = RecvTimedOut /\ rpc = "done"

====
